---------------------------- MODULE Spec2Model ----------------------------
(***************************************************************************)
(* A model of three parts of the imgly photo editing SDK:                  *)
(*                                                                         *)
(*   - RotationOperation (src/src/js/operations/rotation-operation.js):    *)
(*     the `degrees` validator, getNewDimensions and the two render        *)
(*     strategies _renderWebGL and _renderCanvas        (specification     *)
(*     Spec);                                                              *)
(*   - ImglyKit (src/unnamed/part_000): the constructor with _initUI and   *)
(*     render()                                         (specification     *)
(*     SpecKit);                                                           *)
(*   - CropControls (src/src/js/ui/night/controls/crop.js): the crop       *)
(*     rectangle under ratio selections, knob drags and center drags       *)
(*     (specification SpecCrop).                                           *)
(*                                                                         *)
(* JavaScript numbers that are integers in every run of the model are      *)
(* integers here; the crop control's numbers are IEEE 754 doubles.         *)
(***************************************************************************)
EXTENDS Integers, Sequences, FiniteSets, TLC

VARIABLES
    \* ---- RotationOperation ----
    opState,     \* "none" | "constructed" | "rejected": outcome of the constructor
    opError,     \* message of the error the constructor threw, or NoError
    given,       \* history: the degrees value handed to the constructor
    options,     \* this._options of the operation, once it is constructed
    D,           \* the dimensions vector a planning caller holds, once it has one
    D0,          \* history: the contents of D when the caller first passed it
    rets,        \* history: the contents of each getNewDimensions result at return
    gl,          \* the WebGL renderer: canvas, textures, lastTexture, bufferIndex
    glLog,       \* the canvas and gl calls of the last _renderWebGL, in order
    glBefore,    \* history: the WebGL renderer as it was before the last render
    cv,          \* the canvas renderer: its current canvas
    cvBefore,    \* history: the canvas renderer before the last render
    renders,     \* how many times each backend has rendered the operation
    \* ---- ImglyKit ----
    kitState,    \* "none" | "constructed" | "threw": outcome of the constructor
    kitError,    \* message of the error the constructor threw, or NoError
    kitOptions,  \* this._options
    kitUI,       \* this.ui: whether a UI was instantiated and attached
    operationsStack, \* this.operationsStack: the degrees of its RotationOperations
    call,        \* the render() calls made, in order: call[i] is the i-th
    renderImage, \* renderImage[i]: the RenderImage the i-th call created, if any
    exported,    \* exported[i]: the canvas the i-th call's then-callback handed
                 \* to ImageExporter.export, if it ran
    counts,      \* history: calls made, RenderImages created, passes started,
                 \* export calls made
    \* ---- CropControls ----
    cropPhase,   \* "outside" | "inside" | "back" | "done" | "failed": is the
                 \* control active, and how it was left ("failed": _onEnter
                 \* threw)
    uiCanvasSize, \* this._ui.canvas.size
    opCrop,      \* start and end of the crop operation
    ctl,         \* this._start, this._end and this._ratio, and the error a
                 \* handler of the control threw
    initial,     \* this._initialStart and this._initialEnd
    drag,        \* the gesture: its kind, this._currentKnob,
                 \* this._initialMousePosition, this._startBeforeDrag and
                 \* this._endBeforeDrag
    entered,     \* history: start and end of the operation when _onEnter began
    events       \* history: drags, the drag events handled, and gesture, the
                 \* mouse position of the last drag event of the gesture in
                 \* progress (Undefined before its first one)

rotVars == <<opState, opError, given, options, D, D0, rets, gl, glLog, glBefore,
             cv, cvBefore, renders>>

kitVars == <<kitState, kitError, kitOptions, kitUI, operationsStack, call,
             renderImage, exported, counts>>

cropVars == <<cropPhase, uiCanvasSize, opCrop, ctl, initial, drag, entered, events>>

vars == <<rotVars, kitVars, cropVars>>

-----------------------------------------------------------------------------
(* Bounds of the model *)

\* degrees inputs are the multiples of 90 in -90*MaxTurns .. 90*MaxTurns
\* (and a few values that are no multiple of 90)
MaxTurns == 5
\* canvas sides are 100, 200, .. 100*MaxSide
MaxSide == 2
\* the WebGL renderer holds 2 .. MaxTextures textures
MaxTextures == 3
\* each backend renders the operation at most MaxRenders times
MaxRenders == 1
\* the operations stack holds at most MaxStack operations
MaxStack == 1
\* render() is called at most MaxCalls times
MaxCalls == 2
\* the crop control handles at most MaxEvents drag events
MaxEvents == 2

-----------------------------------------------------------------------------
(* Values *)

\* an optional value is Undefined or Some(v)
Undefined == <<>>
Some(v) == <<v>>
NoError == "none"

Vec(x, y) == [x |-> x, y |-> y]

Sides == {100 * i : i \in 1..MaxSide}
Dimensions == {Vec(w, h) : w \in Sides, h \in Sides}

NotMultiples == {45, -45, 100, 91, -1}
DegreeInputs == {90 * k : k \in -MaxTurns..MaxTurns} \cup NotMultiples

\* JavaScript's % : the remainder takes the sign of the dividend
JSRem(a, b) == IF a >= 0 THEN a % b ELSE -((-a) % b)

-----------------------------------------------------------------------------
(* RotationOperation *)

\* the message of the Error the degrees validation throws (the source puts
\* back quotes around the word rotation)
ErrMultipleOf90 == "RotationOperation: rotation has to be a multiple of 90."

\* availableOptions.degrees.validation: TRUE when the validator throws
DegreesValidation_positive(value) == value % 90 > 0 /\ value > 0

DegreesValidation(value) == JSRem(value, 90) # 0

\* availableOptions.degrees.default
DefaultDegrees == 0

\* getNewDimensions(renderer, dimensions): the contents of the vector it
\* returns.  With `dimensions` given, the returned vector is that very object,
\* swapped in place.
GetNewDimensions_mod360(degrees, canvas, dimensions) ==
    LET d == IF dimensions = Undefined THEN Vec(canvas.width, canvas.height)
                                       ELSE dimensions[1]
        actualDegrees == JSRem(degrees, 360)
    IN  IF actualDegrees # 0 THEN Vec(d.y, d.x) ELSE d

GetNewDimensions(degrees, canvas, dimensions) ==
    LET d == IF dimensions = Undefined THEN Vec(canvas.width, canvas.height)
                                       ELSE dimensions[1]
        actualDegrees == JSRem(degrees, 360)
    IN  IF JSRem(actualDegrees, 180) # 0 THEN Vec(d.y, d.x) ELSE d

\* Operation's constructor, for the one option RotationOperation declares:
\* an absent option takes its default, a present one is validated and a
\* failing validation aborts the construction with the validator's error.
OperationConstruct(input) ==
    IF input = Undefined
    THEN [state |-> "constructed", error |-> NoError, degrees |-> DefaultDegrees]
    ELSE IF DegreesValidation(input[1])
         THEN [state |-> "rejected", error |-> ErrMultipleOf90, degrees |-> DefaultDegrees]
         ELSE [state |-> "constructed", error |-> NoError, degrees |-> input[1]]

---------------------------------------------------------------------------
(* The renderers the operation draws on *)

Canvas(id, w, h) == [id |-> id, width |-> w, height |-> h]

\* one canvas or gl call of a render, in the order the calls are made
Event(op, tex, w, h) == [op |-> op, tex |-> tex, width |-> w, height |-> h]

\* Textures are numbered: 0 is the texture of the source image and 1..n are
\* the textures renderer.getTextures() returns.

\* WebGLRenderer.getCurrentTexture(): the texture the next shader draws to
GetCurrentTexture(r) == r.textures[(r.bufferIndex % Len(r.textures)) + 1]

\* WebGLRenderer.runShader: reads renderer.getLastTexture(), draws to the
\* current texture, which becomes the last texture, and selects the next buffer
RunShader(r) ==
    [r EXCEPT !.lastTexture = GetCurrentTexture(r),
              !.bufferIndex = r.bufferIndex + 1]

\* the loop of _renderWebGL over renderer.getTextures(), from index i on:
\* a texImage2D call for every texture but lastTexture
ResizeAllTextures(textures, i, lastTexture, canvas) ==
    LET F[k \in 1..(Len(textures) + 1)] ==
            IF k > Len(textures) THEN <<>>
            ELSE <<Event("texImage2D", textures[k], canvas.width, canvas.height)>>
                 \o F[k + 1]
    IN  F[i]

ResizeOtherTextures(textures, i, lastTexture, canvas) ==
    LET F[k \in 1..(Len(textures) + 1)] ==
            IF k > Len(textures) THEN <<>>
            ELSE IF textures[k] = lastTexture THEN F[k + 1]
            ELSE <<Event("texImage2D", textures[k], canvas.width, canvas.height)>>
                 \o F[k + 1]
    IN  F[i]

\* the sizes of the textures after the gl calls of `log`
ApplyLog(texSize, log) ==
    LET F[k \in 0..Len(log)] ==
            IF k = 0 THEN texSize
            ELSE IF log[k].op = "texImage2D"
                 THEN [F[k - 1] EXCEPT ![log[k].tex] = Vec(log[k].width, log[k].height)]
                 ELSE F[k - 1]
    IN  F[Len(log)]

\* _renderWebGL(renderer): the renderer afterwards and the calls made
RenderWebGL(degrees, r) ==
    LET actualDegrees == JSRem(degrees, 360)
        lastTexture == r.lastTexture
        resize == JSRem(actualDegrees, 180) # 0
        newDimensions == GetNewDimensions(degrees, r.canvas, Undefined)
        canvas == IF resize
                  THEN Canvas(r.canvas.id, newDimensions.x, newDimensions.y)
                  ELSE r.canvas
        resizeLog ==
            IF resize
            THEN <<Event("canvas", r.canvas.id, canvas.width, canvas.height),
                   Event("texImage2D", GetCurrentTexture(r), canvas.width, canvas.height)>>
                 \o ResizeOtherTextures(r.textures, 1, lastTexture, canvas)
            ELSE <<>>
        log == resizeLog
               \o <<Event("runShader", r.lastTexture, canvas.width, canvas.height)>>
               \o <<Event("texImage2D", lastTexture, canvas.width, canvas.height)>>
        r1 == RunShader([r EXCEPT !.canvas = canvas])
    IN  [renderer |-> [r1 EXCEPT !.texSize = ApplyLog(r.texSize, log)],
         log |-> log]

\* _renderCanvas(renderer): the renderer afterwards; the new canvas takes the
\* place of the old one
RenderCanvas_sameSize(degrees, r) ==
    [r EXCEPT !.canvas = Canvas(r.created + 1, r.canvas.width, r.canvas.height),
              !.created = r.created + 1]

RenderCanvas(degrees, r) ==
    LET newDimensions == GetNewDimensions(degrees, r.canvas, Undefined)
        newCanvas == Canvas(r.created + 1, newDimensions.x, newDimensions.y)
    IN  [r EXCEPT !.canvas = newCanvas, !.created = r.created + 1]

---------------------------------------------------------------------------
(* Specification Spec: one RotationOperation, constructed, asked for its    *)
(* new dimensions and rendered on either backend                            *)

WebGLRenderers(src) ==
    {[canvas |-> Canvas(0, src.x, src.y),
      textures |-> [i \in 1..n |-> i],
      texSize |-> [t \in 0..n |-> src],
      lastTexture |-> last,
      bufferIndex |-> b] :
        n \in 2..MaxTextures, last \in 0..MaxTextures, b \in 0..(MaxTextures - 1)}

\* the texture a shader reads is never the one it draws to
WebGLRendererOk(r) ==
    /\ r.lastTexture \in DOMAIN r.texSize
    /\ r.bufferIndex < Len(r.textures)
    /\ GetCurrentTexture(r) # r.lastTexture

ParkedKit ==
    /\ kitState = "none"
    /\ kitError = NoError
    /\ kitOptions = Undefined
    /\ kitUI = [instantiated |-> FALSE, attached |-> FALSE]
    /\ operationsStack = <<>>
    /\ call = <<>>
    /\ renderImage = <<>>
    /\ exported = <<>>
    /\ counts = [calls |-> 0, renderImages |-> 0, passes |-> 0, exports |-> 0]

NoDrag == [mode |-> "none", knob |-> "none", mouse |-> Vec(<<0, 0, 0, 0>>, <<0, 0, 0, 0>>),
           start |-> Undefined, end |-> Undefined]

ParkedCrop ==
    /\ cropPhase = "outside"
    /\ uiCanvasSize = Vec(<<0, 0, 0, 0>>, <<0, 0, 0, 0>>)
    /\ opCrop = Undefined
    /\ ctl = [start |-> Undefined, end |-> Undefined, ratio |-> Undefined,
             error |-> NoError]
    /\ initial = Undefined
    /\ drag = NoDrag
    /\ entered = Undefined
    /\ events = [drags |-> 0, gesture |-> Undefined]

InitRot ==
    /\ opState = "none"
    /\ opError = NoError
    /\ given = Undefined
    /\ options = [degrees |-> DefaultDegrees]
    /\ D = Undefined
    /\ D0 = Undefined
    /\ rets = <<>>
    /\ \E src \in Dimensions :
          /\ \E r \in WebGLRenderers(src) : WebGLRendererOk(r) /\ gl = r
          /\ cv = [canvas |-> Canvas(0, src.x, src.y), created |-> 0]
    /\ glLog = <<>>
    /\ glBefore = gl
    /\ cvBefore = cv
    /\ renders = [webgl |-> 0, canvas |-> 0]
    /\ ParkedKit
    /\ ParkedCrop

\* new RotationOperation(kit, { degrees: input })
Construct ==
    /\ opState = "none"
    /\ \E input \in {Some(v) : v \in DegreeInputs} \cup {Undefined} :
          LET c == OperationConstruct(input)
          IN  /\ opState' = c.state
              /\ opError' = c.error
              /\ given' = input
              /\ options' = [degrees |-> c.degrees]
    /\ UNCHANGED <<D, D0, rets, gl, glLog, glBefore, cv, cvBefore, renders>>
    /\ UNCHANGED <<kitVars, cropVars>>

\* operation.getNewDimensions(renderer, D): the caller passes its vector D,
\* the first time a fresh one, then the same one again
Plan ==
    /\ opState = "constructed"
    /\ Len(rets) < 2
    /\ \E d \in (IF D = Undefined THEN Dimensions ELSE {D[1]}) :
          LET ret == GetNewDimensions(options.degrees, cv.canvas, Some(d))
          IN  /\ D0' = (IF D = Undefined THEN Some(d) ELSE D0)
              /\ D' = Some(ret)
              /\ rets' = Append(rets, ret)
    /\ UNCHANGED <<opState, opError, given, options, gl, glLog, glBefore, cv, cvBefore,
                   renders>>
    /\ UNCHANGED <<kitVars, cropVars>>

\* operation.render(renderer) on the WebGL renderer
RenderOnWebGL ==
    /\ opState = "constructed"
    /\ renders.webgl < MaxRenders
    /\ LET out == RenderWebGL(options.degrees, gl)
       IN  /\ gl' = out.renderer
           /\ glLog' = out.log
    /\ glBefore' = gl
    /\ renders' = [renders EXCEPT !.webgl = @ + 1]
    /\ UNCHANGED <<opState, opError, given, options, D, D0, rets, cv, cvBefore>>
    /\ UNCHANGED <<kitVars, cropVars>>

\* operation.render(renderer) on the canvas renderer
RenderOnCanvas ==
    /\ opState = "constructed"
    /\ renders.canvas < MaxRenders
    /\ cv' = RenderCanvas(options.degrees, cv)
    /\ cvBefore' = cv
    /\ renders' = [renders EXCEPT !.canvas = @ + 1]
    /\ UNCHANGED <<opState, opError, given, options, D, D0, rets, gl, glLog, glBefore>>
    /\ UNCHANGED <<kitVars, cropVars>>

NextRot == Construct \/ Plan \/ RenderOnWebGL \/ RenderOnCanvas

Spec == InitRot /\ [][NextRot]_vars

---------------------------------------------------------------------------
(* Claims about RotationOperation, checked under Spec *)

Swapped(d) == Vec(d.y, d.x)

\* the contents of the vector handed to the k-th getNewDimensions call
PlanInput(k) == IF k = 1 THEN D0[1] ELSE rets[k - 1]

\* C1 (as claimed): getNewDimensions is pure: the caller's vector D holds
\* after a call what it held before it, and two calls with the same D
\* return the same dimensions.
C1_Pure ==
    /\ (Len(rets) >= 1 => D = D0)
    /\ (Len(rets) >= 2 => rets[2] = rets[1])

\* C2 (as claimed): getNewDimensions returns (h, w) iff degrees mod 180 # 0
\* and returns its input unchanged iff degrees mod 360 = 0.
C2_SwapIffIdentityIff360 ==
    \A k \in 1..Len(rets) :
        /\ (rets[k] = Swapped(PlanInput(k))) <=> (options.degrees % 180 # 0)
        /\ (rets[k] = PlanInput(k)) <=> (options.degrees % 360 = 0)

\* C2 (amended): getNewDimensions returns (h, w) when degrees mod 180 # 0 and
\* its input unchanged when degrees mod 180 = 0 (so for 180 as for 0); for
\* w # h each of the two is an equivalence.
C2_SwapIff180 ==
    \A k \in 1..Len(rets) :
        LET in == PlanInput(k)
        IN  /\ (options.degrees % 180 # 0) => rets[k] = Swapped(in)
            /\ (options.degrees % 180 = 0) => rets[k] = in
            /\ in.x # in.y =>
                  /\ (rets[k] = Swapped(in)) <=> (options.degrees % 180 # 0)
                  /\ (rets[k] = in) <=> (options.degrees % 180 = 0)

C2_Witness ==
    /\ Len(rets) >= 1
    /\ options.degrees = -270
    /\ D0 = Some(Vec(100, 200))
    /\ rets[1] = Vec(200, 100)

\* the dimensions the rule of the specification gives: swapped for an
\* effective rotation of 90 or 270 degrees, unchanged for 0 or 180
Expected(degrees, canvas) ==
    IF degrees % 360 \in {90, 270} THEN Vec(canvas.height, canvas.width)
                                   ELSE Vec(canvas.width, canvas.height)

Size(canvas) == Vec(canvas.width, canvas.height)

\* C3: after a render the surface has the dimensions of the rule on either
\* backend, and the two backends, started on the same surface and having
\* rendered the operation as often, agree on them.
C3_BackendsAgree ==
    /\ renders.webgl >= 1 => Size(gl.canvas) = Expected(options.degrees, glBefore.canvas)
    /\ renders.canvas >= 1 => Size(cv.canvas) = Expected(options.degrees, cvBefore.canvas)
    /\ renders.webgl = renders.canvas => Size(gl.canvas) = Size(cv.canvas)

C3_Witness ==
    /\ renders.webgl = 1 /\ renders.canvas = 1
    /\ options.degrees = 90
    /\ Size(glBefore.canvas) = Vec(100, 200) /\ Size(cvBefore.canvas) = Vec(100, 200)
    /\ Size(gl.canvas) = Vec(200, 100) /\ Size(cv.canvas) = Vec(200, 100)

\* C4: the constructor rejects every degrees value that is no multiple of 90
\* with the error naming the multiple-of-90 constraint, and then nothing is
\* rendered; it accepts every multiple of 90 without an error.
C4_Validation ==
    (opState # "none" /\ given # Undefined) =>
        IF given[1] % 90 # 0
        THEN /\ opState = "rejected"
             /\ opError = ErrMultipleOf90
             /\ renders = [webgl |-> 0, canvas |-> 0]
             /\ glLog = <<>>
        ELSE /\ opState = "constructed"
             /\ opError = NoError
             /\ options.degrees = given[1]

C4_Witness ==
    /\ opState = "rejected"
    /\ given = Some(-45)
    /\ opError = ErrMultipleOf90

\* C7: in _renderWebGL no texImage2D call on the input texture comes before
\* the shader has run; when the canvas is resized, the canvas and every other
\* texture get the new size before the shader runs and the input texture gets
\* it in the last call.
C7_InputTextureLast ==
    renders.webgl >= 1 =>
        LET input == glBefore.lastTexture
            now == gl.canvas
            shaders == {i \in 1..Len(glLog) : glLog[i].op = "runShader"}
            others == {glBefore.textures[i] : i \in 1..Len(glBefore.textures)} \ {input}
        IN  /\ Cardinality(shaders) = 1
            /\ \A s \in shaders :
                  /\ glLog[s].tex = input
                  /\ \A i \in 1..Len(glLog) :
                        (glLog[i].op = "texImage2D" /\ glLog[i].tex = input) => i > s
                  /\ (options.degrees % 180 # 0) =>
                        /\ \E i \in 1..(s - 1) :
                              glLog[i] = Event("canvas", now.id, now.width, now.height)
                        /\ \A t \in others : \E i \in 1..(s - 1) :
                              glLog[i] = Event("texImage2D", t, now.width, now.height)
            /\ glLog[Len(glLog)] = Event("texImage2D", input, now.width, now.height)

C7_Witness ==
    /\ renders.webgl = 1
    /\ options.degrees = 90
    /\ Len(glBefore.textures) = 3
    /\ glBefore.lastTexture = 2
    /\ Size(glBefore.canvas) = Vec(100, 200)
    /\ gl.texSize[2] = Vec(200, 100)

---------------------------------------------------------------------------
(* ImglyKit *)

\* this._registeredUIs after _registerUIs(): the identifiers registered on it,
\* in the order of their registration
RegisteredUIs == <<"night">>

\* this._registeredUIs = {} is a plain object: a lookup by a name that is not
\* registered finds what Object.prototype has under that name. None of these
\* is a UI; "constructor" is Object, "__proto__" is Object.prototype, the
\* others are methods, which are no constructors
ObjectPrototype ==
    {"constructor", "__proto__", "toString", "toLocaleString", "valueOf",
     "hasOwnProperty", "isPrototypeOf", "propertyIsEnumerable",
     "__defineGetter__", "__defineSetter__", "__lookupGetter__",
     "__lookupSetter__"}

\* a JavaScript value used as a condition; "true", "false", "null",
\* "undefined", "0" and "NaN" stand for the values of these names, every other
\* string for itself
Falsy == {"false", "null", "undefined", "0", "NaN", ""}

Truthy(v) == v \notin Falsy

\* typeof v === "undefined" for an optional value: it is omitted (Undefined)
\* or present with the value undefined. The value may be a string or a
\* record, which cannot be compared, so their printed forms are
ResolvesToUndefined(property) ==
    property = Undefined \/ ToString(property[1]) = ToString("undefined")

\* _.defaults(options, { assetsUrl: "assets", container: null, ui: true }):
\* every property that resolves to undefined gets its default
Defaults(o) ==
    [image |-> o.image,
     assetsUrl |-> "assets",
     container |-> IF ResolvesToUndefined(o.container) THEN "null" ELSE o.container[1],
     ui |-> IF ResolvesToUndefined(o.ui) THEN "true" ELSE o.ui[1]]

NoUI == [instantiated |-> FALSE, attached |-> FALSE]

\* this._registeredUIs[name]: a registered UI, a property inherited from
\* Object.prototype, or undefined
Lookup(name) ==
    IF name \in {RegisteredUIs[i] : i \in 1..Len(RegisteredUIs)} \cup ObjectPrototype
    THEN Some(name)
    ELSE Undefined

\* this.ui = new UI(this, ...); this.ui.attach(), for a UI that is not
\* undefined. new Object(kit, ...) returns the kit, which has no attach; the
\* other inherited properties cannot be constructed
Attach(UI) ==
    IF UI \in ObjectPrototype
    THEN [error |-> IF UI = "constructor"
                    THEN "TypeError: this.ui.attach is not a function"
                    ELSE "TypeError: UI is not a constructor",
          ui |-> NoUI]
    ELSE [error |-> NoError, ui |-> [instantiated |-> TRUE, attached |-> TRUE]]

\* ImglyKit.prototype._initUI
InitUI(o) ==
    LET UI == IF o.ui = "true" THEN Some(RegisteredUIs[1]) ELSE Lookup(o.ui)
    IN  IF UI = Undefined
        THEN [error |-> "ImglyKit: Unknown UI", ui |-> NoUI]
        ELSE Attach(UI[1])

\* function ImglyKit(options)
ImglyKit(arg) ==
    IF ResolvesToUndefined(arg)
    THEN [state |-> "threw", error |-> "No options given.",
          options |-> Undefined, ui |-> NoUI]
    ELSE IF ResolvesToUndefined(arg[1].image)
    THEN [state |-> "threw", error |-> "options.image is undefined.",
          options |-> Undefined, ui |-> NoUI]
    ELSE LET o == Defaults(arg[1])
             init == IF Truthy(o.ui) THEN InitUI(o)
                                     ELSE [error |-> NoError, ui |-> NoUI]
         IN  IF init.error # NoError
             THEN [state |-> "threw", error |-> init.error,
                   options |-> Undefined, ui |-> NoUI]
             ELSE [state |-> "constructed", error |-> NoError,
                   options |-> Some(o), ui |-> init.ui]

\* the render types and image formats of ./constants
RenderTypes == {"data-url", "image", "buffer"}
ImageFormats == {"image/png", "image/jpeg"}

SupportedPair(renderType, imageFormat) ==
    /\ renderType \in RenderTypes \cup {"undefined"}
    /\ imageFormat \in ImageFormats \cup {"undefined"}

\* ImageExporter.validateSettings: the settings with the defaults filled in;
\* it throws on an unsupported pair
ValidateSettings(renderType, imageFormat) ==
    [ok |-> SupportedPair(renderType, imageFormat),
     renderType |-> IF renderType = "undefined" THEN "data-url" ELSE renderType,
     imageFormat |-> IF imageFormat = "undefined" THEN "image/png" ELSE imageFormat]

\* new RenderImage(image, operationsStack, dimensions, renderer): a renderer
\* of the chosen backend holding the image at its native size
NewRenderImage(image, backend) ==
    [backend |-> backend,
     image |-> image,
     r |-> IF backend = "webgl"
           THEN [canvas |-> Canvas(0, image.x, image.y),
                 textures |-> <<1, 2>>,
                 texSize |-> [t \in 0..2 |-> image],
                 lastTexture |-> 0,
                 bufferIndex |-> 0]
           ELSE [canvas |-> Canvas(0, image.x, image.y), created |-> 0],
     index |-> 1,
     pass |-> "running"]

\* the render of one operation of the stack on the RenderImage's renderer
RenderOperation(ri, degrees) ==
    [ri EXCEPT !.r = IF ri.backend = "webgl" THEN RenderWebGL(degrees, ri.r).renderer
                                             ELSE RenderCanvas(degrees, ri.r),
               !.index = ri.index + 1]

\* what render()'s then-callback hands to ImageExporter.export:
\* renderImage.getRenderer().getCanvas(), read when the callback runs
CallbackCanvas(ri) == ri.r.canvas

---------------------------------------------------------------------------
(* Specification SpecKit: an ImglyKit is constructed, operations are pushed *)
(* on its stack and render() is called                                      *)

\* the degrees of the operations pushed on the stack: a quarter turn, and a
\* value the constructor of the operation rejects
KitDegrees == {90, 45}
RenderTypeInputs == {"image", "blob"}
ImageFormatInputs == {"undefined", "image/gif"}

\* the arguments of the constructor: none, the value undefined, options
\* without an image, and options with an image and some of container and ui;
\* a property is omitted (Undefined) or has a value, which may be the value
\* undefined
KitArguments ==
    LET image == Some(Vec(100, 200))
        square == Some(Vec(200, 200))
        element == Some("element")
    IN  <<Undefined,
         Some("undefined"),
         Some([image |-> Undefined, container |-> element, ui |-> Undefined]),
         Some([image |-> Some("undefined"), container |-> element, ui |-> Undefined]),
         Some([image |-> Some("undefined"), container |-> Undefined, ui |-> Some("night")]),
         Some([image |-> image, container |-> Undefined, ui |-> Undefined]),
         Some([image |-> image, container |-> Undefined, ui |-> Some("undefined")]),
         Some([image |-> image, container |-> Some("undefined"), ui |-> Some("toString")]),
         Some([image |-> image, container |-> element, ui |-> Some("constructor")]),
         Some([image |-> image, container |-> element, ui |-> Some("night")]),
         Some([image |-> square, container |-> Undefined, ui |-> Some("null")]),
         Some([image |-> image, container |-> element, ui |-> Some("fancy")])>>

ParkedRot ==
    /\ opState = "none"
    /\ opError = NoError
    /\ given = Undefined
    /\ options = [degrees |-> DefaultDegrees]
    /\ D = Undefined
    /\ D0 = Undefined
    /\ rets = <<>>
    /\ gl = Undefined
    /\ glLog = <<>>
    /\ glBefore = Undefined
    /\ cv = Undefined
    /\ cvBefore = Undefined
    /\ renders = [webgl |-> 0, canvas |-> 0]

InitKit ==
    /\ ParkedKit
    /\ ParkedRot
    /\ ParkedCrop

\* new ImglyKit(options)
KitConstruct ==
    /\ kitState = "none"
    /\ \E n \in 1..Len(KitArguments) :
          LET k == ImglyKit(KitArguments[n])
          IN  /\ kitState' = k.state
              /\ kitError' = k.error
              /\ kitOptions' = k.options
              /\ kitUI' = k.ui
    /\ UNCHANGED <<operationsStack, call, renderImage, exported, counts>>
    /\ UNCHANGED <<rotVars, cropVars>>

\* kit.operationsStack.push(new RotationOperation(kit, { degrees: d }));
\* nothing is pushed when the constructor throws. The array is the one every
\* RenderImage in flight was given
AddOperation ==
    /\ kitState = "constructed"
    /\ Len(operationsStack) < MaxStack
    /\ \E d \in KitDegrees :
          LET c == OperationConstruct(Some(d))
          IN  operationsStack' = IF c.state = "constructed"
                                 THEN Append(operationsStack, c.degrees)
                                 ELSE operationsStack
    /\ UNCHANGED <<kitState, kitError, kitOptions, kitUI, call, renderImage,
                   exported, counts>>
    /\ UNCHANGED <<rotVars, cropVars>>

\* a render() call as the call record of the model; ops becomes the length of
\* the stack when the then-callback runs
Call(state, renderType, imageFormat) ==
    [state |-> state, renderType |-> renderType, imageFormat |-> imageFormat,
     ops |-> Undefined]

\* kit.render(renderType, imageFormat), up to the return of the promise
Render_createFirst(renderType, imageFormat) ==
    LET settings == ValidateSettings(renderType, imageFormat)
    IN  /\ \E backend \in {"webgl", "canvas"} :
              renderImage' = Append(renderImage,
                                    Some(NewRenderImage(kitOptions[1].image[1], backend)))
        /\ exported' = Append(exported, Undefined)
        /\ IF ~settings.ok
           THEN /\ call' = Append(call, Call("threw", renderType, imageFormat))
                /\ counts' = [counts EXCEPT !.calls = @ + 1, !.renderImages = @ + 1]
           ELSE /\ call' = Append(call, Call("rendering", renderType, imageFormat))
                /\ counts' = [counts EXCEPT !.calls = @ + 1, !.renderImages = @ + 1,
                                            !.passes = @ + 1]

Render(renderType, imageFormat) ==
    LET settings == ValidateSettings(renderType, imageFormat)
    IN  IF ~settings.ok
        THEN /\ call' = Append(call, Call("threw", renderType, imageFormat))
             /\ renderImage' = Append(renderImage, Undefined)
             /\ exported' = Append(exported, Undefined)
             /\ counts' = [counts EXCEPT !.calls = @ + 1]
        ELSE /\ \E backend \in {"webgl", "canvas"} :
                   renderImage' = Append(renderImage,
                                         Some(NewRenderImage(kitOptions[1].image[1],
                                                             backend)))
             /\ exported' = Append(exported, Undefined)
             /\ call' = Append(call, Call("rendering", renderType, imageFormat))
             /\ counts' = [counts EXCEPT !.calls = @ + 1, !.renderImages = @ + 1,
                                         !.passes = @ + 1]

\* render() may be called while the promise of an earlier call is pending
KitRender ==
    /\ kitState = "constructed"
    /\ counts.calls < MaxCalls
    /\ \E renderType \in RenderTypeInputs, imageFormat \in ImageFormatInputs :
          Render(renderType, imageFormat)
    /\ UNCHANGED <<kitState, kitError, kitOptions, kitUI, operationsStack>>
    /\ UNCHANGED <<rotVars, cropVars>>

\* the render pass of one call renders the next operation of the stack
RenderStep ==
    /\ \E i \in 1..Len(call) :
          /\ call[i].state = "rendering"
          /\ renderImage[i][1].pass = "running"
          /\ renderImage[i][1].index <= Len(operationsStack)
          /\ renderImage' =
                [renderImage EXCEPT
                    ![i] = Some(RenderOperation(renderImage[i][1],
                                                operationsStack[renderImage[i][1].index]))]
    /\ UNCHANGED <<kitState, kitError, kitOptions, kitUI, operationsStack, call,
                   exported, counts>>
    /\ UNCHANGED <<rotVars, cropVars>>

\* the render pass of one call fails: the promise of renderImage.render()
\* rejects. The reaction of render()'s promise to it is a job of its own
RenderImageRejects ==
    /\ \E i \in 1..Len(call) :
          /\ call[i].state = "rendering"
          /\ renderImage[i][1].pass = "running"
          /\ renderImage' = [renderImage EXCEPT ![i] = Some([@[1] EXCEPT !.pass = "failed"])]
    /\ UNCHANGED <<kitState, kitError, kitOptions, kitUI, operationsStack, call,
                   exported, counts>>
    /\ UNCHANGED <<rotVars, cropVars>>

\* the reaction to the rejection runs: the then-callback of render() is
\* skipped and the promise render() returned rejects
RenderRejects_exports ==
    /\ \E i \in 1..Len(call) :
          /\ call[i].state = "rendering"
          /\ renderImage[i][1].pass = "failed"
          /\ exported' = [exported EXCEPT ![i] = Some(CallbackCanvas(renderImage[i][1]))]
          /\ call' = [call EXCEPT ![i].state = "rejected"]
    /\ counts' = [counts EXCEPT !.exports = @ + 1]
    /\ UNCHANGED <<kitState, kitError, kitOptions, kitUI, operationsStack, renderImage>>
    /\ UNCHANGED <<rotVars, cropVars>>

RenderRejects ==
    /\ \E i \in 1..Len(call) :
          /\ call[i].state = "rendering"
          /\ renderImage[i][1].pass = "failed"
          /\ call' = [call EXCEPT ![i].state = "rejected"]
    /\ UNCHANGED <<kitState, kitError, kitOptions, kitUI, operationsStack,
                   renderImage, exported, counts>>
    /\ UNCHANGED <<rotVars, cropVars>>

\* the render pass of one call is through the stack: the promise of
\* renderImage.render() fulfills. The then-callback of render() is a job of
\* its own; pushes and render() calls queued before it run first
RenderImageFulfills ==
    /\ \E i \in 1..Len(call) :
          /\ call[i].state = "rendering"
          /\ renderImage[i][1].pass = "running"
          /\ renderImage[i][1].index > Len(operationsStack)
          /\ renderImage' = [renderImage EXCEPT ![i] = Some([@[1] EXCEPT !.pass = "completed"])]
    /\ UNCHANGED <<kitState, kitError, kitOptions, kitUI, operationsStack, call,
                   exported, counts>>
    /\ UNCHANGED <<rotVars, cropVars>>

\* the then-callback of render() runs: it reads the renderer's canvas and
\* calls the exporter
RenderThen ==
    /\ \E i \in 1..Len(call) :
          /\ call[i].state = "rendering"
          /\ renderImage[i][1].pass = "completed"
          /\ exported' = [exported EXCEPT ![i] = Some(CallbackCanvas(renderImage[i][1]))]
          /\ call' = [call EXCEPT ![i].state = "exporting",
                                  ![i].ops = Some(Len(operationsStack))]
    /\ counts' = [counts EXCEPT !.exports = @ + 1]
    /\ UNCHANGED <<kitState, kitError, kitOptions, kitUI, operationsStack, renderImage>>
    /\ UNCHANGED <<rotVars, cropVars>>

\* ImageExporter.export settles, and with it the promise render() returned
ExportSettles ==
    /\ \E i \in 1..Len(call) :
          /\ call[i].state = "exporting"
          /\ \E outcome \in {"fulfilled", "rejected"} :
                call' = [call EXCEPT ![i].state = outcome]
    /\ UNCHANGED <<kitState, kitError, kitOptions, kitUI, operationsStack,
                   renderImage, exported, counts>>
    /\ UNCHANGED <<rotVars, cropVars>>

NextKit ==
    \/ KitConstruct
    \/ AddOperation
    \/ KitRender
    \/ RenderStep
    \/ RenderImageRejects
    \/ RenderRejects
    \/ RenderImageFulfills
    \/ RenderThen
    \/ ExportSettles

SpecKit == InitKit /\ [][NextKit]_vars

\* the job queue runs every promise reaction that is queued: the reaction to
\* a settled renderImage.render() is not put off forever
SpecKitLive ==
    SpecKit /\ WF_vars(RenderRejects) /\ WF_vars(RenderThen)

---------------------------------------------------------------------------
(* Claims about ImglyKit, checked under SpecKit *)

\* C5: a render() call with an unsupported (renderType, imageFormat) pair
\* throws at once and creates no RenderImage, starts no render pass and makes
\* no export call, then or later.
C5_ValidateFirst ==
    [][/\ (/\ counts'.calls = counts.calls + 1
           /\ ~SupportedPair(call'[Len(call')].renderType, call'[Len(call')].imageFormat))
          => /\ call'[Len(call')].state = "threw"
             /\ renderImage'[Len(call')] = Undefined
             /\ exported'[Len(call')] = Undefined
             /\ counts'.renderImages = counts.renderImages
             /\ counts'.passes = counts.passes
             /\ counts'.exports = counts.exports
       /\ \A i \in 1..Len(call) :
             call[i].state = "threw"
             => /\ call'[i] = call[i]
                /\ renderImage'[i] = Undefined
                /\ exported'[i] = Undefined]_vars

C5_Witness ==
    /\ Len(call) = 2
    /\ call[1].state = "threw"
    /\ call[1].renderType = "blob"
    /\ call[2].state = "fulfilled"
    /\ counts = [calls |-> 2, renderImages |-> 1, passes |-> 1, exports |-> 1]

\* the dimensions the rule of the specification gives after the first n
\* operations of the stack
ExpectedAfter(stack, n, image) ==
    LET F[k \in 0..n] ==
            IF k = 0 THEN image
            ELSE Expected(stack[k], [width |-> F[k - 1].x, height |-> F[k - 1].y])
    IN  F[n]

\* the exporter was called for the i-th call only after the call's render
\* pass had completed, with the canvas the pass left; after a failed pass it
\* was not called and the promise render() returned is not fulfilled
ExportedAfterRender(i) ==
    /\ exported[i] # Undefined =>
          LET ri == renderImage[i][1]
          IN  /\ ri.pass = "completed"
              /\ exported[i][1] = ri.r.canvas
              /\ Size(exported[i][1]) =
                    ExpectedAfter(operationsStack, ri.index - 1, ri.image)
    /\ call[i].state \in {"exporting", "fulfilled"} => exported[i] # Undefined
    /\ (renderImage[i] # Undefined /\ renderImage[i][1].pass = "failed") =>
          /\ exported[i] = Undefined
          /\ call[i].state \in {"rendering", "rejected"}

\* the render pass of the i-th call has failed; it stays failed
PassFailed(i) ==
    /\ renderImage[i] # Undefined
    /\ renderImage[i][1].pass = "failed"

\* the promise render() returned is rejected for every call whose render
\* pass has failed
FailedAreRejected ==
    \A i \in 1..Len(call) : PassFailed(i) => call[i].state = "rejected"

\* C6: for every render() call, the exporter is called only once the call's
\* render pass has completed, with the renderer's canvas as it is when the
\* then-callback runs, which is the canvas the pass left: its size is the one
\* the operations the pass rendered give; when the pass fails the exporter is
\* never called and the promise render() returned rejects: it does not stay
\* pending forever. A failed pass stays failed, so a promise that stayed
\* pending after it would make FailedAreRejected false from then on.
C6_ExportAfterRender ==
    /\ [](/\ \A i \in 1..Len(call) : ExportedAfterRender(i)
          /\ counts.exports <= counts.passes)
    /\ []<>FailedAreRejected

\* the first call rendered the operation of the stack and exported the
\* rotated canvas; the pass of the second call, made while the first was
\* rendering, failed and the call is rejected
C6_Witness ==
    /\ Len(call) = 2
    /\ call[1].state = "fulfilled"
    /\ call[1].ops = Some(1)
    /\ renderImage[1][1].index = 2
    /\ call[2].state = "rejected"
    /\ renderImage[2][1].pass = "failed"
    /\ renderImage[2][1].index = 1
    /\ operationsStack = <<90>>
    /\ renderImage[1][1].backend = "canvas"
    /\ renderImage[1][1].image = Vec(100, 200)
    /\ exported = <<Some(Canvas(1, 200, 100)), Undefined>>

\* C9 (as claimed): an ImglyKit constructed without a container has no UI
\* instantiated or attached.
C9_NoContainerNoUI ==
    (kitState = "constructed" /\ kitOptions[1].container = "null") =>
        (~kitUI.instantiated /\ ~kitUI.attached)

---------------------------------------------------------------------------
(* JavaScript numbers: IEEE 754 binary64. A number is <<sign, exponent, high, *)
(* low>> and stands for sign * (high * 2^26 + low) * 2^exponent: the mantissa *)
(* has exactly 53 bits, of which high holds the first 27 (so that            *)
(* 2^26 <= high < 2^27) and low the other 26; zero is <<0, 0, 0, 0>>. Every   *)
(* operation rounds its exact result to the nearest number, ties to the even *)
(* mantissa. Infinities, NaN, subnormal numbers and the sign of zero are     *)
(* left out: no operation of the control reaches or tells them apart.        *)
(* In the definitions 67108864 is 2^26, 134217728 is 2^27, 268435456 is 2^28, *)
(* 536870912 is 2^29 and 16384 is 2^14.                                      *)

Pow2Table ==
    <<1, 2, 4, 8, 16, 32, 64, 128, 256, 512, 1024, 2048, 4096, 8192, 16384, 32768,
      65536, 131072, 262144, 524288, 1048576, 2097152, 4194304, 8388608, 16777216,
      33554432, 67108864, 134217728, 268435456, 536870912, 1073741824>>

Pow2(k) == Pow2Table[k + 1]

\* the number of bits of a natural number below 2^31
RECURSIVE Bits(_)
Bits(n) == IF n = 0 THEN 0 ELSE 1 + Bits(n \div 2)

Zero == <<0, 0, 0, 0>>

\* While an operation computes, the mantissa has three more bits at its end:
\* it is high * 2^29 + low with low < 2^29, and the last bit is set when bits
\* beyond it were lost
Jam(low, lost) == IF lost /\ low % 2 = 0 THEN low + 1 ELSE low

\* 1 where x - y borrows
Borrow(x, y) == IF x < y THEN 1 ELSE 0

\* a mantissa high * 2^26 + low with low <= 2^26, as a number
Carry(sign, e, high, low) ==
    IF low < 67108864 THEN <<sign, e, high, low>>
    ELSE IF high + 1 < 134217728 THEN <<sign, e, high + 1, 0>>
    ELSE <<sign, e + 1, 67108864, 0>>

\* rounds the three bits away: up when they are more than a half, or a half
\* and the mantissa is odd
Pack(sign, e, high, low) ==
    Carry(sign, e, high,
          low \div 8 + (IF low % 8 > 4 \/ low % 16 = 12 THEN 1 ELSE 0))

\* (high * 2^29 + low) / 2^d, where p = 2^d and q = 2^(29 - d), for d <= 28
ShiftLow(high, low, p, q) ==
    <<high \div p, Jam(low \div p + (high % p) * q, low % p # 0)>>

\* (high * 2^29 + low) / 2^d, where p = 2^(d - 29), for 29 <= d
ShiftHigh(high, low, p) == <<0, Jam(high \div p, high % p # 0 \/ low # 0)>>

\* (high * 2^29 + low) / 2^d, as <<high, low>>
ShiftRight(high, low, d) ==
    IF d = 0 THEN <<high, low>>
    ELSE IF d <= 28 THEN ShiftLow(high, low, Pow2(d), Pow2(29 - d))
    ELSE IF d <= 55 THEN ShiftHigh(high, low, Pow2(d - 29))
    ELSE <<0, 1>>

\* (high * 2^29 + low) * 2^k rounded, where p = 2^k and q = 2^(29 - k)
ShiftLeft(sign, e, high, low, p, q) == Pack(sign, e, high * p + low \div q, (low % q) * p)

\* by how many bits high falls short of its 27 bits, for high > 0
Short(high) ==
    IF high >= 67108864 THEN 0 ELSE IF high >= 33554432 THEN 1 ELSE 27 - Bits(high)

\* shifts a mantissa other than 0 to the left until high has its 27 bits
RECURSIVE Normalize(_, _, _, _)
Normalize(sign, e, high, low) ==
    IF high = 0 THEN Normalize(sign, e - 27, low \div 4, (low % 4) * 134217728)
    ELSE ShiftLeft(sign, e - Short(high), high, low, Pow2(Short(high)), Pow2(29 - Short(high)))

\* a sum high * 2^29 + low with high < 2^28 and low < 2^29, rounded
PackSum(sign, e, high, low) ==
    IF high < 134217728 THEN Pack(sign, e, high, low)
    ELSE Pack(sign, e + 1, high \div 2, Jam(low \div 2 + (high % 2) * 268435456, low % 2 = 1))

\* the sum (same) or the difference of the mantissa high * 2^29 + low and the
\* smaller one shifted
Combine(sign, e, high, low, shifted, same) ==
    IF same
    THEN PackSum(sign, e, high + shifted[1] + (low + shifted[2]) \div 536870912,
                 (low + shifted[2]) % 536870912)
    ELSE Normalize(sign, e, high - shifted[1] - Borrow(low, shifted[2]),
                   low - shifted[2] + Borrow(low, shifted[2]) * 536870912)

\* -1, 0 or 1 as the magnitude of a is less than, equal to or greater than
\* that of b, for numbers other than 0
CompareMagnitudes(a, b) ==
    IF a[2] # b[2] THEN (IF a[2] < b[2] THEN -1 ELSE 1)
    ELSE IF a[3] # b[3] THEN (IF a[3] < b[3] THEN -1 ELSE 1)
    ELSE IF a[4] # b[4] THEN (IF a[4] < b[4] THEN -1 ELSE 1)
    ELSE 0

\* a + b for numbers other than 0 with |a| >= |b|
AddOrdered(a, b) ==
    Combine(a[1], a[2], a[3], a[4] * 8, ShiftRight(b[3], b[4] * 8, a[2] - b[2]),
            a[1] = b[1])

\* a + b for numbers other than 0, where c compares their magnitudes
AddCompared(a, b, c) ==
    IF c = 0 /\ a[1] # b[1] THEN Zero
    ELSE AddOrdered(IF c = -1 THEN b ELSE a, IF c = -1 THEN a ELSE b)

\* the + of JavaScript
RAdd(a, b) ==
    IF a[1] = 0 THEN b
    ELSE IF b[1] = 0 THEN a
    ELSE AddCompared(a, b, CompareMagnitudes(a, b))

\* the - of JavaScript
RSub(a, b) == RAdd(a, <<-b[1], b[2], b[3], b[4]>>)

\* the mantissa as four digits to the base 2^14, the last one first
Digits(a) ==
    <<a[4] % 16384,
      a[4] \div 16384 + (a[3] % 4) * 4096,
      (a[3] \div 4) % 16384,
      a[3] \div 65536>>

\* the 56 bits from bit 14 + d of the number with the digits d[1] .. d[5] to
\* the base 2^14 (the last one first) upwards, where p = 2^d, rounded
Assemble(sign, e, d, p, lost) ==
    Pack(sign, e,
         d[3] \div (2 * p) + d[4] * (8192 \div p) + d[5] * (134217728 \div p),
         Jam(d[1] \div p + d[2] * (16384 \div p) + (d[3] % (2 * p)) * (268435456 \div p),
             lost \/ d[1] % p # 0))

\* the columns of the product of two mantissas in digits
Columns(x, y) ==
    <<x[1] * y[1],
      x[1] * y[2] + x[2] * y[1],
      x[1] * y[3] + x[2] * y[2] + x[3] * y[1],
      x[1] * y[4] + x[2] * y[3] + x[3] * y[2] + x[4] * y[1],
      x[2] * y[4] + x[3] * y[3] + x[4] * y[2],
      x[3] * y[4] + x[4] * y[3],
      x[4] * y[4]>>

\* column k and what the columns before it carry into it
RECURSIVE Carried(_, _)
Carried(c, k) == IF k = 1 THEN c[1] ELSE c[k] + Carried(c, k - 1) \div 16384

\* the product of two mantissas with the columns c: 105 or 106 bits, rounded
Product(sign, e, c) ==
    Assemble(sign, IF Carried(c, 7) >= 2097152 THEN e + 53 ELSE e + 52,
             <<Carried(c, 4) % 16384, Carried(c, 5) % 16384, Carried(c, 6) % 16384,
               Carried(c, 7) % 16384, Carried(c, 7) \div 16384>>,
             IF Carried(c, 7) >= 2097152 THEN 256 ELSE 128,
             c[1] % 16384 # 0 \/ Carried(c, 2) % 16384 # 0 \/ Carried(c, 3) % 16384 # 0)

\* the * of JavaScript
RMul(a, b) ==
    IF a[1] = 0 \/ b[1] = 0 THEN Zero
    ELSE Product(a[1] * b[1], a[2] + b[2], Columns(Digits(a), Digits(b)))

\* what is divided by v for digit k of the quotient of the mantissa x, in
\* digits and followed by two digits 0, by v: the remainder so far and the
\* next digit
RECURSIVE Partial(_, _, _)
Partial(x, v, k) ==
    IF k = 5 THEN x[4] * 16384 + x[3]
    ELSE (Partial(x, v, k + 1) % v) * 16384 + (IF k >= 3 THEN x[k - 2] ELSE 0)

\* the quotient of a mantissa x in digits by v, 67 or 68 bits, rounded
Quotient(sign, e, x, v) ==
    Assemble(sign, IF Partial(x, v, 5) \div v >= 2048 THEN e + 1 ELSE e,
             <<Partial(x, v, 1) \div v, Partial(x, v, 2) \div v, Partial(x, v, 3) \div v,
               Partial(x, v, 4) \div v, Partial(x, v, 5) \div v>>,
             IF Partial(x, v, 5) \div v >= 2048 THEN 4096 ELSE 2048,
             Partial(x, v, 1) % v # 0)

\* a / b bit by bit: the remainder so far is high * 2^26 + low, the quotient
\* so far qh * 2^29 + ql, and n bits are to come; the result is <<qh, ql,
\* whether a remainder is left>>
RECURSIVE LongDivision(_, _, _, _, _, _, _)
LongDivision(high, low, bh, bl, qh, ql, n) ==
    IF n = 0 THEN <<qh, ql, high # 0 \/ low # 0>>
    ELSE LET bit == IF high > bh \/ (high = bh /\ low >= bl) THEN 1 ELSE 0
             rl == low - bit * bl + bit * Borrow(low, bl) * 67108864
             rh == high - bit * bh - bit * Borrow(low, bl)
             q == ql * 2 + bit
         IN  LongDivision(rh * 2 + rl \div 33554432, (rl % 33554432) * 2, bh, bl,
                          qh * 2 + q \div 536870912, q % 536870912, n - 1)

\* a quotient of 55 or 56 bits, rounded
PackQuotient(sign, e, q) ==
    IF q[1] >= 67108864 THEN Pack(sign, e, q[1], Jam(q[2], q[3]))
    ELSE Pack(sign, e - 1, q[1] * 2 + q[2] \div 268435456,
              Jam((q[2] % 268435456) * 2, q[3]))

\* the / of JavaScript, for a divisor other than 0: digit by digit where the
\* divisor's mantissa is v * 2^39 with v < 2^14
RDiv(a, b) ==
    IF a[1] = 0 THEN Zero
    ELSE IF b[4] = 0 /\ b[3] % 8192 = 0
    THEN Quotient(a[1] * b[1], a[2] - b[2] - 53, Digits(a), b[3] \div 8192)
    ELSE PackQuotient(a[1] * b[1], a[2] - b[2] - 52,
                      LongDivision(a[3], a[4], b[3], b[4], 0, 0, 56))

\* the < and <= of JavaScript
RLt(a, b) ==
    IF a[1] # b[1] THEN a[1] < b[1]
    ELSE IF a[1] = 0 THEN FALSE
    ELSE CompareMagnitudes(a, b) = -a[1]

RLe(a, b) == ~RLt(b, a)

\* Math.max and Math.min
RMax(a, b) == IF RLt(a, b) THEN b ELSE a
RMin(a, b) == IF RLt(b, a) THEN b ELSE a

\* a natural number m of the given number of bits, other than 0, as a number
Natural(sign, m, bits) ==
    IF bits <= 27 THEN <<sign, bits - 53, m * Pow2(27 - bits), 0>>
    ELSE <<sign, bits - 53, m \div Pow2(bits - 27), (m % Pow2(bits - 27)) * Pow2(53 - bits)>>

\* an integer as a number
RInt(n) ==
    IF n = 0 THEN Zero
    ELSE IF n < 0 THEN Natural(-1, -n, Bits(-n))
    ELSE Natural(1, n, Bits(n))

\* the number a decimal literal or parseFloat gives for n / d
Rat(n, d) == RDiv(RInt(n), RInt(d))

\* Vector2 and its methods, on vectors of numbers
VInt(x, y) == Vec(RInt(x), RInt(y))
VAdd(a, b) == Vec(RAdd(a.x, b.x), RAdd(a.y, b.y))
VSubtract(a, b) == Vec(RSub(a.x, b.x), RSub(a.y, b.y))
VMultiply(a, b) == Vec(RMul(a.x, b.x), RMul(a.y, b.y))
VDivide(a, b) == Vec(RDiv(a.x, b.x), RDiv(a.y, b.y))

\* Vector2.clamp(minimum, maximum): a bound that is null (Undefined here)
\* does not constrain; where minimum exceeds maximum the minimum wins
VClamp(v, minimum, maximum) ==
    LET upper == IF maximum = Undefined THEN v
                 ELSE Vec(RMin(maximum[1].x, v.x), RMin(maximum[1].y, v.y))
    IN  IF minimum = Undefined THEN upper
        ELSE Vec(RMax(minimum[1].x, upper.x), RMax(minimum[1].y, upper.y))

---------------------------------------------------------------------------
(* CropControls *)

\* this._minimumSize: the minimum size in pixels
MinimumSize == VInt(50, 50)

\* the full image, which _onEnter sets on the operation
FullImage == [start |-> VInt(0, 0), end |-> VInt(1, 1)]

\* the start and end _setRatio("*") sets
DefaultCrop == [start |-> Vec(Rat(1, 10), Rat(1, 10)), end |-> Vec(Rat(9, 10), Rat(9, 10))]

\* the ratio items of the controls: data-ratio, and which one is data-selected
RatioItems == <<"*", "1", "1.5", "0.75">>
SelectedItem == "*"

\* parseFloat of a data-ratio
ParseFloat(ratio) ==
    CASE ratio = "1" -> Rat(1, 1)
      [] ratio = "1.5" -> Rat(3, 2)
      [] ratio = "0.75" -> Rat(3, 4)

\* the TypeError of reading or writing a property of null
TypeError == "TypeError"

\* the control c = [start, end, ratio, error]: this._start, this._end and
\* this._ratio (start and end are Undefined while they are null), and the
\* error a handler threw, after which it did nothing more

\* _updateDOM: it reads this._start and this._end
UpdateDOM(c) ==
    IF c.start = Undefined \/ c.end = Undefined THEN [c EXCEPT !.error = TypeError]
    ELSE c

\* (1 - size) / 2
Centered(size) == RDiv(RSub(RInt(1), size), RInt(2))

\* the resize of _setRatio where the canvas is less wide than the ratio: the
\* rectangle takes 80 % of the width, and startY is this._start.y
ResizeHeight(c, startY) ==
    [c EXCEPT !.start = Some(Vec(Rat(1, 10), startY)),
              !.end = Some(Vec(Rat(9, 10), RSub(RInt(1), startY)))]

\* and where it is wider: 80 % of the height, and startX is this._start.x
ResizeWidth(c, startX) ==
    [c EXCEPT !.start = Some(Vec(startX, Rat(1, 10))),
              !.end = Some(Vec(RSub(RInt(1), startX), Rat(9, 10)))]

\* the condition of the resize
Wide(canvasSize, r) == RLe(RDiv(canvasSize.x, canvasSize.y), r)

\* the resize of _setRatio with the ratio r, both this._start and this._end
\* being there
Resize(c, r, canvasSize) ==
    IF Wide(canvasSize, r)
    THEN ResizeHeight(c, Centered(RMul(RDiv(RInt(1), canvasSize.y),
                                       RMul(RDiv(canvasSize.x, r), Rat(8, 10)))))
    ELSE ResizeWidth(c, Centered(RMul(RDiv(RInt(1), canvasSize.x),
                                      RMul(RMul(r, canvasSize.y), Rat(8, 10)))))

\* _setRatio once this._ratio is the parsed number: the resize throws at its
\* first write to this._start or this._end that is null
SetNumber(c, resize, canvasSize) ==
    IF ~resize THEN UpdateDOM(c)
    ELSE IF c.start = Undefined THEN [c EXCEPT !.error = TypeError]
    ELSE IF c.end = Undefined
    THEN [c EXCEPT !.start = Some(IF Wide(canvasSize, c.ratio[1])
                                  THEN Vec(Rat(1, 10), c.start[1].y)
                                  ELSE Vec(c.start[1].x, Rat(1, 10))),
                   !.error = TypeError]
    ELSE Resize(c, c.ratio[1], canvasSize)

\* _setRatio(ratio, resize) on the control c
SetRatio(c, ratio, resize, canvasSize) ==
    IF c.error # NoError THEN c
    ELSE IF ratio = "*"
    THEN [start |-> Some(DefaultCrop.start), end |-> Some(DefaultCrop.end),
          ratio |-> Undefined, error |-> NoError]
    ELSE SetNumber([c EXCEPT !.ratio = Some(ParseFloat(ratio))], resize, canvasSize)

\* _selectRatio(item)
SelectRatio(c, item, canvasSize) == SetRatio(c, item, TRUE, canvasSize)

\* _handleControls: the loop over the ratio items, left when a step throws
HandleControls(c, canvasSize) ==
    LET F[k \in 0..Len(RatioItems)] ==
            IF k = 0 THEN c
            ELSE IF F[k - 1].error # NoError THEN F[k - 1]
            ELSE IF /\ RatioItems[k] = SelectedItem
                    /\ F[k - 1].start = Undefined
                    /\ F[k - 1].end = Undefined
                 THEN SelectRatio(SetRatio(F[k - 1], RatioItems[k], FALSE, canvasSize),
                                  RatioItems[k], canvasSize)
                 ELSE UpdateDOM(F[k - 1])
    IN  F[Len(RatioItems)]

\* the first switch of _onKnobDrag: the dragged corner in pixels
KnobDragAbsolute(corner, absoluteStart, absoluteEnd, mouseDiff) ==
    CASE corner = "top-left" ->
            [start |-> VClamp(VAdd(absoluteStart, mouseDiff), Undefined,
                              Some(VSubtract(absoluteEnd, MinimumSize))),
             end |-> absoluteEnd]
      [] corner = "top-right" ->
            LET endX == RAdd(absoluteEnd.x, mouseDiff.x)
                startY == RAdd(absoluteStart.y, mouseDiff.y)
            IN  [start |-> Vec(absoluteStart.x,
                               RMin(RSub(absoluteEnd.y, MinimumSize.y), startY)),
                 end |-> Vec(RMax(RAdd(absoluteStart.x, MinimumSize.x), endX),
                             absoluteEnd.y)]
      [] corner = "bottom-right" ->
            [start |-> absoluteStart,
             end |-> VClamp(VAdd(absoluteEnd, mouseDiff),
                            Some(VAdd(absoluteStart, MinimumSize)), Undefined)]
      [] corner = "bottom-left" ->
            LET startX == RAdd(absoluteStart.x, mouseDiff.x)
                endY == RAdd(absoluteEnd.y, mouseDiff.y)
            IN  [start |-> Vec(RMin(RSub(absoluteEnd.x, MinimumSize.x), startX),
                               absoluteStart.y),
                 end |-> Vec(absoluteEnd.x,
                             RMax(RAdd(absoluteStart.y, MinimumSize.y), endY))]

\* height / canvasSize.y, or width / canvasSize.x, of the ratio switch: the
\* extent a rectangle has in one direction, as a fraction of the canvas, for
\* its extent (end - start) * canvasSize in the other
RatioExtent(start, end, canvasSize, ratio, otherSize) ==
    RDiv(RDiv(RMul(RSub(end, start), canvasSize), ratio), otherSize)

\* the top corners where this._start.y <= 0: width is width / canvasSize.x
\* of the branch
RatioTopEdge(corner, start, end, width) ==
    IF corner = "top-left"
    THEN [start |-> Vec(RSub(end.x, width), Zero), end |-> end]
    ELSE [start |-> Vec(start.x, Zero), end |-> Vec(RAdd(start.x, width), end.y)]

\* the top corners: top is this._start.y as first assigned
RatioTop(corner, start, end, ratio, canvasSize, top) ==
    IF RLe(top, Zero)
    THEN RatioTopEdge(corner, start, end,
                      RatioExtent(Zero, end.y, canvasSize.y, ratio, canvasSize.x))
    ELSE [start |-> Vec(start.x, top), end |-> end]

\* the bottom corners where this._end.y >= 1
RatioBottomEdge(corner, start, end, width) ==
    IF corner = "bottom-right"
    THEN [start |-> start, end |-> Vec(RAdd(start.x, width), RInt(1))]
    ELSE [start |-> Vec(RSub(end.x, width), start.y), end |-> Vec(end.x, RInt(1))]

\* the bottom corners: bottom is this._end.y as first assigned
RatioBottom(corner, start, end, ratio, canvasSize, bottom) ==
    IF RLe(RInt(1), bottom)
    THEN RatioBottomEdge(corner, start, end,
                         RatioExtent(start.y, RInt(1), canvasSize.y, ratio, canvasSize.x))
    ELSE [start |-> start, end |-> Vec(end.x, bottom)]

\* the second switch of _onKnobDrag: the boundaries under a fixed ratio
KnobDragRatio(corner, start, end, ratio, canvasSize) ==
    IF corner \in {"top-left", "top-right"}
    THEN RatioTop(corner, start, end, ratio, canvasSize,
                  RSub(end.y, RatioExtent(start.x, end.x, canvasSize.x, ratio,
                                          canvasSize.y)))
    ELSE RatioBottom(corner, start, end, ratio, canvasSize,
                     RAdd(start.y, RatioExtent(start.x, end.x, canvasSize.x, ratio,
                                               canvasSize.y)))

\* this._start and this._end from the corners in pixels, clamped to 0..1
Relative(absolute, canvasSize) ==
    [start |-> VClamp(VDivide(absolute.start, canvasSize),
                      Some(VInt(0, 0)), Some(VInt(1, 1))),
     end |-> VClamp(VDivide(absolute.end, canvasSize),
                    Some(VInt(0, 0)), Some(VInt(1, 1)))]

\* if (this._ratio !== null), on the rectangle crop
Boundaries(corner, ratio, canvasSize, crop) ==
    IF ratio # Undefined
    THEN KnobDragRatio(corner, crop.start, crop.end, ratio[1], canvasSize)
    ELSE crop

\* _onKnobDrag: this._start and this._end afterwards
OnKnobDrag(corner, ratio, canvasSize, startBeforeDrag, endBeforeDrag, mouseDiff) ==
    Boundaries(corner, ratio, canvasSize,
               Relative(KnobDragAbsolute(corner,
                                         VMultiply(startBeforeDrag, canvasSize),
                                         VMultiply(endBeforeDrag, canvasSize),
                                         mouseDiff),
                        canvasSize))

\* the end of _onCenterDrag: absoluteEnd from absoluteStart, and both divided
CenterPlaced(canvasSize, absoluteCropSize, absoluteStart) ==
    [start |-> VDivide(absoluteStart, canvasSize),
     end |-> VDivide(VAdd(absoluteStart, absoluteCropSize), canvasSize)]

\* _onCenterDrag once absoluteCropSize is there
CenterMoved(canvasSize, startBeforeDrag, mouseDiff, absoluteCropSize) ==
    CenterPlaced(canvasSize, absoluteCropSize,
                 VClamp(VAdd(VMultiply(startBeforeDrag, canvasSize), mouseDiff),
                        Some(VInt(0, 0)),
                        Some(VSubtract(canvasSize, absoluteCropSize))))

\* _onCenterDrag: this._start and this._end afterwards
OnCenterDrag(canvasSize, startBeforeDrag, endBeforeDrag, mouseDiff) ==
    CenterMoved(canvasSize, startBeforeDrag, mouseDiff,
                VMultiply(VSubtract(endBeforeDrag, startBeforeDrag), canvasSize))

---------------------------------------------------------------------------
(* Specification SpecCrop: one session of the crop control: it is entered,   *)
(* ratios are selected, knobs and the center are dragged, and it is left by  *)
(* Back or Done                                                              *)

\* this._ui.canvas.size: a landscape and a portrait canvas
CanvasSizes == {VInt(400, 300), VInt(300, 400)}

\* start and end of the crop operation before the control is first entered
OperationCrops ==
    {[start |-> Vec(Rat(1, 4), Rat(1, 4)), end |-> Vec(Rat(3, 4), Rat(3, 4))]}

Corners == {"top-left", "top-right", "bottom-right", "bottom-left"}

\* where the mouse is pressed, and where a drag event finds it
DownPosition == VInt(200, 200)
MousePositions ==
    {VInt(-200, -200), VInt(-200, 220), VInt(220, -200), VInt(220, 220),
     VInt(600, -200), VInt(600, 600)}

InitCrop ==
    /\ cropPhase = "outside"
    /\ uiCanvasSize \in CanvasSizes
    /\ opCrop \in OperationCrops
    /\ ctl = [start |-> Undefined, end |-> Undefined, ratio |-> Undefined,
             error |-> NoError]
    /\ initial = Undefined
    /\ drag = NoDrag
    /\ entered = Undefined
    /\ events = [drags |-> 0, gesture |-> Undefined]
    /\ ParkedRot
    /\ ParkedKit

\* what _onEnter stores for the back button
InitialSettings_afterSet(operation) == Some(FullImage)

InitialSettings(operation) == Some(operation)

\* _onEnter
OnEnter ==
    /\ cropPhase = "outside"
    /\ entered' = opCrop
    /\ initial' = InitialSettings(opCrop)
    /\ opCrop' = FullImage
    /\ ctl' = HandleControls(ctl, uiCanvasSize)
    /\ cropPhase' = IF ctl'.error = NoError THEN "inside" ELSE "failed"
    /\ UNCHANGED <<uiCanvasSize, drag, events>>
    /\ UNCHANGED <<rotVars, kitVars>>

\* _onRatioClick(item)
OnRatioClick ==
    /\ cropPhase = "inside"
    /\ drag.mode = "none"
    /\ \E k \in 1..Len(RatioItems) :
          ctl' = SelectRatio(ctl, RatioItems[k], uiCanvasSize)
    /\ UNCHANGED <<cropPhase, uiCanvasSize, opCrop, initial, drag, entered, events>>
    /\ UNCHANGED <<rotVars, kitVars>>

\* the control c with the rectangle a drag handler leaves
Dragged(c, crop) == [c EXCEPT !.start = Some(crop.start), !.end = Some(crop.end)]

\* _onKnobDown(e, knob)
OnKnobDown ==
    /\ cropPhase = "inside"
    /\ drag.mode = "none"
    /\ \E knob \in Corners :
          drag' = [mode |-> "knob", knob |-> knob, mouse |-> DownPosition,
                   start |-> ctl.start, end |-> ctl.end]
    /\ events' = [events EXCEPT !.gesture = Undefined]
    /\ UNCHANGED <<cropPhase, uiCanvasSize, opCrop, ctl, initial, entered>>
    /\ UNCHANGED <<rotVars, kitVars>>

\* _onKnobDrag(e)
KnobDrag ==
    /\ drag.mode = "knob"
    /\ events.drags < MaxEvents
    /\ \E mousePosition \in MousePositions :
          /\ ctl' = Dragged(ctl, OnKnobDrag(drag.knob, ctl.ratio, uiCanvasSize,
                                            drag.start[1], drag.end[1],
                                            VSubtract(mousePosition, drag.mouse)))
          /\ events' = [drags |-> events.drags + 1, gesture |-> Some(mousePosition)]
    /\ UNCHANGED <<cropPhase, uiCanvasSize, opCrop, initial, drag, entered>>
    /\ UNCHANGED <<rotVars, kitVars>>

\* _onKnobUp(e)
OnKnobUp ==
    /\ drag.mode = "knob"
    /\ drag' = [drag EXCEPT !.mode = "none", !.knob = "none"]
    /\ events' = [events EXCEPT !.gesture = Undefined]
    /\ UNCHANGED <<cropPhase, uiCanvasSize, opCrop, ctl, initial, entered>>
    /\ UNCHANGED <<rotVars, kitVars>>

\* _onCenterDown(e)
OnCenterDown ==
    /\ cropPhase = "inside"
    /\ drag.mode = "none"
    /\ drag' = [mode |-> "center", knob |-> drag.knob, mouse |-> DownPosition,
                start |-> ctl.start, end |-> ctl.end]
    /\ events' = [events EXCEPT !.gesture = Undefined]
    /\ UNCHANGED <<cropPhase, uiCanvasSize, opCrop, ctl, initial, entered>>
    /\ UNCHANGED <<rotVars, kitVars>>

\* _onCenterDrag(e)
CenterDrag ==
    /\ drag.mode = "center"
    /\ events.drags < MaxEvents
    /\ \E mousePosition \in MousePositions :
          /\ ctl' = Dragged(ctl, OnCenterDrag(uiCanvasSize, drag.start[1], drag.end[1],
                                              VSubtract(mousePosition, drag.mouse)))
          /\ events' = [drags |-> events.drags + 1, gesture |-> Some(mousePosition)]
    /\ UNCHANGED <<cropPhase, uiCanvasSize, opCrop, initial, drag, entered>>
    /\ UNCHANGED <<rotVars, kitVars>>

\* _onCenterUp(e)
OnCenterUp ==
    /\ drag.mode = "center"
    /\ drag' = [drag EXCEPT !.mode = "none"]
    /\ events' = [events EXCEPT !.gesture = Undefined]
    /\ UNCHANGED <<cropPhase, uiCanvasSize, opCrop, ctl, initial, entered>>
    /\ UNCHANGED <<rotVars, kitVars>>

\* _onBack
OnBack ==
    /\ cropPhase = "inside"
    /\ drag.mode = "none"
    /\ opCrop' = initial[1]
    /\ cropPhase' = "back"
    /\ UNCHANGED <<uiCanvasSize, ctl, initial, drag, entered, events>>
    /\ UNCHANGED <<rotVars, kitVars>>

\* _onDone
OnDone ==
    /\ cropPhase = "inside"
    /\ drag.mode = "none"
    /\ opCrop' = [start |-> ctl.start[1], end |-> ctl.end[1]]
    /\ cropPhase' = "done"
    /\ UNCHANGED <<uiCanvasSize, ctl, initial, drag, entered, events>>
    /\ UNCHANGED <<rotVars, kitVars>>

NextCrop ==
    \/ OnEnter
    \/ OnRatioClick
    \/ OnKnobDown
    \/ KnobDrag
    \/ OnKnobUp
    \/ OnCenterDown
    \/ CenterDrag
    \/ OnCenterUp
    \/ OnBack
    \/ OnDone

SpecCrop == InitCrop /\ [][NextCrop]_vars

---------------------------------------------------------------------------
(* Claims about CropControls, checked under SpecCrop *)

\* start < end in both components, both within 0..1
ValidCrop(start, end) ==
    /\ RLe(RInt(0), start.x) /\ RLt(start.x, end.x) /\ RLe(end.x, RInt(1))
    /\ RLe(RInt(0), start.y) /\ RLt(start.y, end.y) /\ RLe(end.y, RInt(1))

\* C8 (as claimed): whatever ratios are selected and whatever is dragged, the
\* control's start and end satisfy start < end within 0..1, and so do the
\* values Done hands to the crop operation.
C8_ValidCrop ==
    /\ ctl.start # Undefined => ValidCrop(ctl.start[1], ctl.end[1])
    /\ ValidCrop(opCrop.start, opCrop.end)

\* C10: while the control is active the values stored for Back are those the
\* operation had when the control was entered, and Back gives the operation
\* exactly these values again.
C10_BackRestores ==
    /\ cropPhase = "inside" => (initial = Some(entered) /\ opCrop = FullImage)
    /\ cropPhase = "back" => opCrop = entered

C10_Witness ==
    /\ cropPhase = "back"
    /\ entered = [start |-> Vec(Rat(1, 4), Rat(1, 4)), end |-> Vec(Rat(3, 4), Rat(3, 4))]
    /\ opCrop = entered
    /\ events.drags = 2
    /\ ctl.ratio = Some(Rat(3, 2))
    /\ ctl.start # Some(DefaultCrop.start)

\* the size of a rectangle, as a fraction of the canvas
CropSize(start, end) == VSubtract(end, start)

\* the size of a rectangle in pixels of the canvas
AbsoluteSize(start, end, canvasSize) == VMultiply(CropSize(start, end), canvasSize)

\* where a rectangle pressed at start..end belongs when the mouse, pressed at
\* down, is at mousePosition: moved by the displacement in pixels of the
\* canvas and kept between 0 and the canvas less the rectangle's size, as a
\* fraction of the canvas
MovedStart(start, end, down, mousePosition, canvasSize) ==
    VDivide(VClamp(VAdd(VMultiply(start, canvasSize), VSubtract(mousePosition, down)),
                   Some(VInt(0, 0)),
                   Some(VSubtract(canvasSize, AbsoluteSize(start, end, canvasSize)))),
            canvasSize)

\* C11 (as claimed): during a center gesture, after each of its drag events
\* the rectangle has the size it had at the press, lies within the canvas
\* (0 <= start and end <= 1), and is where the press-time rectangle and the
\* mouse position of this last event alone put it: the invariant holds of a
\* state however many events of the gesture led to it.
C11_CenterDragMoves ==
    (drag.mode = "center" /\ events.gesture # Undefined) =>
        LET start == ctl.start[1]
            end == ctl.end[1]
            mousePosition == events.gesture[1]
        IN  /\ CropSize(start, end) = CropSize(drag.start[1], drag.end[1])
            /\ RLe(RInt(0), start.x) /\ RLe(RInt(0), start.y)
            /\ RLe(end.x, RInt(1)) /\ RLe(end.y, RInt(1))
            /\ start = MovedStart(drag.start[1], drag.end[1], drag.mouse,
                                  mousePosition, uiCanvasSize)

\* C12 (as claimed): during a knob gesture, after each of its drag events the
\* rectangle measures at least the minimum size of 50 x 50 pixels, whichever
\* corner is dragged, wherever the mouse is, with or without a fixed ratio.
C12_MinimumSize ==
    (drag.mode = "knob" /\ events.gesture # Undefined) =>
        LET size == AbsoluteSize(ctl.start[1], ctl.end[1], uiCanvasSize)
        IN  RLe(MinimumSize.x, size.x) /\ RLe(MinimumSize.y, size.y)

=============================================================================
